---------------------------- MODULE Spec2Model ----------------------------
(***************************************************************************)
(* Model of src/src/dataset.ts: the synthetic data set generators, the     *)
(* Fisher-Yates shuffle, the CSV importer, the fixed collection adapter    *)
(* and the polar normal sampler of the playground.                         *)
(*                                                                         *)
(* Numbers.  A JavaScript number is modelled in fixed point: the integer n *)
(* stands for n / Unit.  NaN is a value of its own.  Angles are measured   *)
(* in turns (one turn = 2 * Math.PI), so an angle of Unit is a full turn.  *)
(* Math.random() is a nondeterministic choice among a set of samples of    *)
(* the interval [0, 1).                                                    *)
(***************************************************************************)
EXTENDS Integers, Sequences, FiniteSets, TLC

VARIABLES
  \* a running generator (DataGenerator call)
  gen, numSamples, noise, points, i, half, arg, pc,
  \* parseCsvTextToExamples
  csvText, isRegression, rows, rowIdx, out, cpc,
  \* shuffle
  array, counter, index, before, spc,
  \* generatorFromExamples: the heap of arrays and of point objects
  arrays, objs, handles, op,
  \* normalRandom
  mean, variance, v1, v2, s, result, npc

genVars  == <<gen, numSamples, noise, points, i, half, arg, pc>>
csvVars  == <<csvText, isRegression, rows, rowIdx, out, cpc>>
shufVars == <<array, counter, index, before, spc>>
adVars   == <<arrays, objs, handles, op>>
nrVars   == <<mean, variance, v1, v2, s, result, npc>>
vars     == <<genVars, csvVars, shufVars, adVars, nrVars>>

---------------------------------------------------------------------------
(* Bounds of the model *)

\* largest numSamples a generator is called with
MaxSamples == 2
\* the fixed-count presets loop 80, 160 or 200 times; the model stops them here
MaxPreset == 1

---------------------------------------------------------------------------
(* Numbers *)

Unit == 10 ^ 3

NaN == -(2 ^ 30)

isNaN(v) == v = NaN

Abs(v) == IF v < 0 THEN -v ELSE v

\* a * b and a + b of two numbers, NaN being contagious
Mul(a, b) == IF isNaN(a) \/ isNaN(b) THEN NaN ELSE (a * b) \div Unit

Add(a, b) == IF isNaN(a) \/ isNaN(b) THEN NaN ELSE a + b

RECURSIVE ISqrtIter(_, _)
\* Newton's iteration from a value a that is at least the square root
ISqrtIter(n, a) ==
  LET b == (a + n \div a) \div 2
  IN  IF b >= a THEN a ELSE ISqrtIter(n, b)

\* floor of the square root of a natural number
ISqrt(n) ==
  IF n = 0 THEN 0
  ELSE ISqrtIter(n, IF n < 2 ^ 16 THEN 2 ^ 8
                    ELSE IF n < 2 ^ 24 THEN 2 ^ 12 ELSE 46340)

\* Math.sqrt of a number
Sqrt(v) ==
  IF isNaN(v) \/ v < 0 THEN NaN
  ELSE IF v <= 2000000 THEN ISqrt(v * Unit)
  ELSE ISqrt(v \div 10) * 100

RECURSIVE LnReduce(_, _)
\* ln(m * 2^-k) for m > 0, by halving or doubling into [1/2, 1], then the
\* series 2 * (z + z^3/3 + z^5/5) with z = (m - 1) / (m + 1)
LnReduce(m, k) ==
  IF m > Unit THEN LnReduce(m \div 2, k - 1)
  ELSE IF m < Unit \div 2 THEN LnReduce(m * 2, k + 1)
  ELSE LET z  == ((m - Unit) * Unit) \div (m + Unit)
           z3 == (((z * z) \div Unit) * z) \div Unit
           z5 == (((z3 * z) \div Unit) * z) \div Unit
       IN  2 * (z + z3 \div 3 + z5 \div 5) - k * 693

\* Math.log of a number x > 0
Ln(x) == LnReduce(x, 0)

\* Math.sin of an angle in turns (Bhaskara's approximation on a half turn)
Sin(t) ==
  LET a == t % Unit
      h == a % (Unit \div 2)
      q == h * (Unit \div 2 - h)
      v == (16000 * q) \div (1250000 - 4 * q)
  IN  IF a < Unit \div 2 THEN v ELSE -v

\* Math.cos of an angle in turns
Cos(t) == Sin(t + Unit \div 4)

\* d3.scale.linear().domain([d0, d1]).range([r0, r1]), with .clamp(c): the
\* line through (d0, r0) and (d1, r1), beyond the domain too unless clamped
LinearScale(d0, d1, r0, r1, c, v) ==
  LET lo == IF d0 < d1 THEN d0 ELSE d1
      hi == IF d0 < d1 THEN d1 ELSE d0
      w  == IF ~c THEN v ELSE IF v < lo THEN lo ELSE IF v > hi THEN hi ELSE v
  IN  r0 + ((w - d0) * (r1 - r0)) \div (d1 - d0)

---------------------------------------------------------------------------
(* The random source and the utilities *)

\* values Math.random() returns
RandomSamples == {0, 500, 560}

\* values of the noise argument
NoiseSamples == {0, 500}

\* randUniform(a, b) for the value r of Math.random()
randUniform(a, b, r) == (r * (b - a)) \div Unit + a

\* dist(a, b)
dist(ax, ay, bx, by) ==
  LET dx == ax - bx
      dy == ay - by
  IN  ISqrt(dx * dx + dy * dy)

\* normalRandom: the two candidates and their squared sum for two draws
Candidate(r) == 2 * r - Unit

SquaredSum(a, b) == (a * a + b * b) \div Unit

\* normalRandom: the loop goes round again
Redraw(sq) == sq > Unit

\* normalRandom: the value returned for an accepted pair.  With s = 0 the
\* code computes Math.log(0) = -Infinity, -2 * -Infinity / 0 = Infinity and
\* Infinity * v1 = Infinity * 0 = NaN.
Transform(m, var, a, sq) ==
  LET res == IF sq = 0 THEN NaN
             ELSE Mul(Sqrt(((-2 * Ln(sq)) * Unit) \div sq), a)
  IN  Add(m, Mul(Sqrt(var), res))

\* the values a call normalRandom(mean, variance) can return
normalRandom(m, var) ==
  { Transform(m, var, Candidate(ra), SquaredSum(Candidate(ra), Candidate(rb))) :
      <<ra, rb>> \in { p \in RandomSamples \X RandomSamples :
                         ~Redraw(SquaredSum(Candidate(p[1]), Candidate(p[2]))) } }

Point(px, py, l) == [x |-> px, y |-> py, label |-> l]


---------------------------------------------------------------------------
(* The groups of variables a specification does not use stay as they are *)

GenIdle ==
  /\ gen = "none" /\ numSamples = 0 /\ noise = 0 /\ points = <<>>
  /\ i = 0 /\ half = 1 /\ arg = <<0, 0>> /\ pc = "idle"

CsvIdle ==
  /\ csvText = <<>> /\ isRegression = FALSE /\ rows = <<>>
  /\ rowIdx = 0 /\ out = <<>> /\ cpc = "idle"

ShufIdle ==
  /\ array = <<>> /\ counter = 0 /\ index = 0 /\ before = <<>> /\ spc = "idle"

AdIdle ==
  /\ arrays = <<>> /\ objs = <<>> /\ handles = <<>> /\ op = "idle"

NrIdle ==
  /\ mean = 0 /\ variance = 0
  /\ v1 = 0 /\ v2 = 0 /\ s = 0 /\ result = 0 /\ npc = "idle"

---------------------------------------------------------------------------
(* The generators.  One action is one iteration of a generator's loop;     *)
(* points is the collection under construction, i the loop counter, half   *)
(* the first or second of the two loops of a generator that has two.       *)

ClassifyGens == {"twoGauss", "spiral", "circle", "xor", "cDummy1", "cDummy2"}

RegressGens == {"plane", "gaussian", "rDummy1", "rDummy2"}

PresetGens == {"cDummy1", "cDummy2", "rDummy1", "rDummy2"}

\* the generators with two loops (genGauss, genSpiral, add called twice)
TwoLoopGens == {"twoGauss", "spiral", "circle", "cDummy1"}

\* the loop counts of the presets
CsvDummy1PerCluster == 80

CsvDummy2Count == 160

RegressDummyCount == 200

\* a preset's loop count, as far as the model follows it
Capped(n) == IF n < MaxPreset THEN n ELSE MaxPreset

\* numSamples / 2
HalfSamples == (numSamples * Unit) \div 2

\* the condition of the running loop
LoopCond ==
  CASE gen \in {"twoGauss", "spiral", "circle"} -> i * Unit < HalfSamples
    [] gen \in {"xor", "plane", "gaussian"}     -> i < numSamples
    [] gen = "cDummy1"                           -> i < Capped(CsvDummy1PerCluster)
    [] gen = "cDummy2"                           -> i < Capped(CsvDummy2Count)
    [] gen \in {"rDummy1", "rDummy2"}            -> i < Capped(RegressDummyCount)
    [] OTHER                                     -> FALSE

\* points.push({x, y, label}) and i++
Push(px, py, l) ==
  /\ points' = Append(points, Point(px, py, l))
  /\ i' = i + 1
  /\ UNCHANGED <<gen, numSamples, noise, half, pc>>
  /\ UNCHANGED <<csvVars, shufVars, adVars, nrVars>>

\* classifyTwoGaussData: varianceScale
varianceScale(v) == LinearScale(0, 500, 500, 4000, FALSE, v)

\* classifyTwoGaussData: one iteration of genGauss
classifyTwoGaussData ==
  /\ gen = "twoGauss" /\ pc = "run" /\ LoopCond
  /\ LET c == IF half = 1 THEN 2 * Unit ELSE -2 * Unit
         l == IF half = 1 THEN Unit ELSE -Unit
     IN  \E px \in normalRandom(c, varianceScale(noise)),
            py \in normalRandom(c, varianceScale(noise)) :
           Push(px, py, l)
  /\ UNCHANGED arg

\* classifySpiralData: one iteration of genSpiral
classifySpiralData ==
  /\ gen = "spiral" /\ pc = "run" /\ LoopCond
  /\ LET n      == HalfSamples
         deltaT == IF half = 1 THEN 0 ELSE Unit \div 2
         l      == IF half = 1 THEN Unit ELSE -Unit
         r      == (i * Unit * 5 * Unit) \div n
         t      == (1750 * i * Unit) \div n + deltaT
     IN  \E ra, rb \in RandomSamples :
           Push(Mul(r, Sin(t)) + Mul(randUniform(-Unit, Unit, ra), noise),
                Mul(r, Cos(t)) + Mul(randUniform(-Unit, Unit, rb), noise), l)
  /\ UNCHANGED arg

radius == 5 * Unit

\* getCircleLabel(p, center)
getCircleLabel(px, py, cx, cy) ==
  IF dist(px, py, cx, cy) < radius \div 2 THEN Unit ELSE -Unit

\* classifyCircleData: one iteration of the loop of the inner points
\* (half = 1) or of the outer points (half = 2)
classifyCircleData ==
  /\ gen = "circle" /\ pc = "run" /\ LoopCond
  /\ \E ra, rb, rc, rd \in RandomSamples :
       LET r      == IF half = 1 THEN randUniform(0, radius \div 2, ra)
                     ELSE randUniform((radius * 7) \div 10, radius, ra)
           angle  == randUniform(0, Unit, rb)
           px     == Mul(r, Sin(angle))
           py     == Mul(r, Cos(angle))
           noiseX == Mul(randUniform(-radius, radius, rc), noise)
           noiseY == Mul(randUniform(-radius, radius, rd), noise)
       IN  Push(px, py, getCircleLabel(px + noiseX, py + noiseY, 0, 0))
  /\ UNCHANGED arg

\* getXORLabel with a fault: the sign of the product, 0 for a product of 0
getXORLabelSign(px, py) ==
  IF px * py > 0 THEN Unit ELSE IF px * py = 0 THEN 0 ELSE -Unit

\* getXORLabel(p)
getXORLabel(px, py) == IF px * py >= 0 THEN Unit ELSE -Unit

padding == 300

\* classifyXORData: one iteration
classifyXORData ==
  /\ gen = "xor" /\ pc = "run" /\ LoopCond
  /\ \E ra, rb, rc, rd \in RandomSamples :
       LET x0     == randUniform(-5 * Unit, 5 * Unit, ra)
           px     == x0 + (IF x0 > 0 THEN padding ELSE -padding)
           y0     == randUniform(-5 * Unit, 5 * Unit, rb)
           py     == y0 + (IF y0 > 0 THEN padding ELSE -padding)
           noiseX == Mul(randUniform(-5 * Unit, 5 * Unit, rc), noise)
           noiseY == Mul(randUniform(-5 * Unit, 5 * Unit, rd), noise)
       IN  /\ Push(px, py, getXORLabel(px + noiseX, py + noiseY))
           /\ arg' = <<px + noiseX, py + noiseY>>

\* regressPlane: getLabel(x, y) = labelScale(x + y)
planeLabel(px, py) ==
  LinearScale(-10 * Unit, 10 * Unit, -Unit, Unit, FALSE, px + py)

\* regressPlane: one iteration
regressPlane ==
  /\ gen = "plane" /\ pc = "run" /\ LoopCond
  /\ \E ra, rb, rc, rd \in RandomSamples :
       LET px     == randUniform(-6 * Unit, 6 * Unit, ra)
           py     == randUniform(-6 * Unit, 6 * Unit, rb)
           noiseX == Mul(randUniform(-6 * Unit, 6 * Unit, rc), noise)
           noiseY == Mul(randUniform(-6 * Unit, 6 * Unit, rd), noise)
       IN  Push(px, py, planeLabel(px + noiseX, py + noiseY))
  /\ UNCHANGED arg

\* regressGaussian: the six centres [cx, cy, sign]
gaussians ==
  << <<-4000, 2500, 1>>, <<0, 2500, -1>>, <<4000, 2500, 1>>,
     <<-4000, -2500, -1>>, <<0, -2500, 1>>, <<4000, -2500, -1>> >>

\* Replaces with a fault: a tie replaces too
ReplacesOnTie(newLabel, label) == Abs(newLabel) >= Abs(label)

\* the comparison that lets a centre's value replace the current label
Replaces(newLabel, label) == Abs(newLabel) > Abs(label)

RECURSIVE getLabelFrom(_, _, _, _)
\* regressGaussian.getLabel: gaussians.forEach from centre k on
getLabelFrom(k, label, px, py) ==
  IF k > Len(gaussians) THEN label
  ELSE LET g        == gaussians[k]
           newLabel == g[3] * LinearScale(0, 2 * Unit, Unit, 0, TRUE,
                                          dist(px, py, g[1], g[2]))
       IN  getLabelFrom(k + 1,
                        IF Replaces(newLabel, label) THEN newLabel ELSE label,
                        px, py)

\* regressGaussian.getLabel(x, y)
getLabel(px, py) == getLabelFrom(1, 0, px, py)

\* regressGaussian: one iteration
regressGaussian ==
  /\ gen = "gaussian" /\ pc = "run" /\ LoopCond
  /\ \E ra, rb, rc, rd \in RandomSamples :
       LET px     == randUniform(-6 * Unit, 6 * Unit, ra)
           py     == randUniform(-6 * Unit, 6 * Unit, rb)
           noiseX == Mul(randUniform(-6 * Unit, 6 * Unit, rc), noise)
           noiseY == Mul(randUniform(-6 * Unit, 6 * Unit, rd), noise)
       IN  /\ Push(px, py, getLabel(px + noiseX, py + noiseY))
           /\ arg' = <<px + noiseX, py + noiseY>>

\* classifyCsvDummy1: one iteration of add(2.5, 2.5, 1, 80) (half = 1) or of
\* add(-2.5, -2.5, -1, 80) (half = 2)
classifyCsvDummy1 ==
  /\ gen = "cDummy1" /\ pc = "run" /\ LoopCond
  /\ LET c == IF half = 1 THEN 2500 ELSE -2500
         l == IF half = 1 THEN Unit ELSE -Unit
     IN  \E px \in normalRandom(c, 400 + noise), py \in normalRandom(c, 400 + noise) :
           Push(px, py, l)
  /\ UNCHANGED arg

\* classifyCsvDummy2: one iteration
classifyCsvDummy2 ==
  /\ gen = "cDummy2" /\ pc = "run" /\ LoopCond
  /\ \E ra, rb, rc, rd, re \in RandomSamples :
       LET r  == IF ra < Unit \div 2
                 THEN Unit + Mul(200, randUniform(-Unit, Unit, rb))
                 ELSE 3 * Unit + Mul(300, randUniform(-Unit, Unit, rb))
           t  == randUniform(0, Unit, rc)
           l  == IF r < 2 * Unit THEN Unit ELSE -Unit
       IN  Push(Mul(r, Cos(t)) + Mul(noise, randUniform(-Unit, Unit, rd)),
                Mul(r, Sin(t)) + Mul(noise, randUniform(-Unit, Unit, re)), l)
  /\ UNCHANGED arg

\* regressCsvDummy1: one iteration
regressCsvDummy1 ==
  /\ gen = "rDummy1" /\ pc = "run" /\ LoopCond
  /\ \E ra, rb, rc, rd \in RandomSamples :
       LET px == randUniform(-5500, 5500, ra)
           py == randUniform(-5500, 5500, rb)
           nx == Mul(noise, randUniform(-Unit, Unit, rc))
           ny == Mul(noise, randUniform(-Unit, Unit, rd))
       IN  Push(px, py, LinearScale(-6 * Unit, 6 * Unit, -Unit, Unit, FALSE,
                                    (px + nx) - (py + ny)))
  /\ UNCHANGED arg

\* regressCsvDummy2: the two centres {x, y, s}
centers == << <<-2500, 2000, 1>>, <<2500, -2000, -1>> >>

RECURSIVE bestFrom(_, _, _, _)
\* regressCsvDummy2: centers.forEach from centre k on
bestFrom(k, best, px, py) ==
  IF k > Len(centers) THEN best
  ELSE LET c == centers[k]
           v == c[3] * LinearScale(0, 4 * Unit, Unit, 0, TRUE,
                                   dist(px, py, c[1], c[2]))
       IN  bestFrom(k + 1, IF Replaces(v, best) THEN v ELSE best, px, py)

\* regressCsvDummy2: one iteration
regressCsvDummy2 ==
  /\ gen = "rDummy2" /\ pc = "run" /\ LoopCond
  /\ \E ra, rb, rc, rd \in RandomSamples :
       LET px == randUniform(-6 * Unit, 6 * Unit, ra)
                   + Mul(noise, randUniform(-Unit, Unit, rc))
           py == randUniform(-6 * Unit, 6 * Unit, rb)
                   + Mul(noise, randUniform(-Unit, Unit, rd))
       IN  /\ Push(px, py, bestFrom(1, 0, px, py))
           /\ arg' = <<px, py>>

\* the first loop of a generator with two loops ends: the second starts
SecondLoop ==
  /\ gen \in TwoLoopGens /\ pc = "run" /\ ~LoopCond /\ half = 1
  /\ half' = 2 /\ i' = 0
  /\ UNCHANGED <<gen, numSamples, noise, points, arg, pc>>
  /\ UNCHANGED <<csvVars, shufVars, adVars, nrVars>>

\* return points
Return ==
  /\ pc = "run" /\ ~LoopCond /\ (gen \in TwoLoopGens => half = 2)
  /\ pc' = "done"
  /\ UNCHANGED <<gen, numSamples, noise, points, i, half, arg>>
  /\ UNCHANGED <<csvVars, shufVars, adVars, nrVars>>

\* a call g(numSamples, noise); a preset never reads numSamples, and is
\* called with one value of it
GenInit(G) ==
  /\ gen \in G
  /\ numSamples \in (IF gen \in PresetGens THEN {MaxSamples} ELSE 0 .. MaxSamples)
  /\ noise \in NoiseSamples
  /\ points = <<>> /\ i = 0 /\ half = 1 /\ arg = <<0, 0>> /\ pc = "run"

GenNext ==
  \/ classifyTwoGaussData \/ classifySpiralData \/ classifyCircleData
  \/ classifyXORData \/ regressPlane \/ regressGaussian
  \/ classifyCsvDummy1 \/ classifyCsvDummy2
  \/ regressCsvDummy1 \/ regressCsvDummy2
  \/ SecondLoop \/ Return

\* every generator, called once
InitGen ==
  GenInit(ClassifyGens \cup RegressGens) /\ CsvIdle /\ ShufIdle /\ AdIdle /\ NrIdle

SpecGen ==
  /\ InitGen
  /\ [][GenNext]_vars

ClassifyNext ==
  \/ classifyTwoGaussData \/ classifySpiralData \/ classifyCircleData
  \/ classifyXORData \/ classifyCsvDummy1 \/ classifyCsvDummy2
  \/ SecondLoop \/ Return

\* the classification generators
InitClassify ==
  GenInit(ClassifyGens) /\ CsvIdle /\ ShufIdle /\ AdIdle /\ NrIdle

SpecClassify ==
  /\ InitClassify
  /\ [][ClassifyNext]_vars

BumpNext == regressGaussian \/ regressCsvDummy2 \/ Return

\* the two regression generators that label a point by its strongest bump
InitBump ==
  GenInit({"gaussian", "rDummy2"}) /\ CsvIdle /\ ShufIdle /\ AdIdle /\ NrIdle

SpecBump ==
  /\ InitBump
  /\ [][BumpNext]_vars

---------------------------------------------------------------------------
(* Claims about the generators *)

\* C1: a generator that is not a preset returns exactly numSamples points,
\* for odd numSamples too.
C1_LengthIsNumSamples ==
  (pc = "done" /\ gen \notin PresetGens) => Len(points) = numSamples

\* C2: every label a regression generator produces lies in [-1, 1].
C2_RegressionLabelInRange ==
  gen \in RegressGens =>
    \A k \in 1 .. Len(points) :
      -Unit <= points[k].label /\ points[k].label <= Unit

\* C7: every label a classification generator produces is exactly -1 or +1,
\* also for an XOR point whose noisy coordinates have product 0.
C7_ClassLabelIsSign ==
  gen \in ClassifyGens =>
    \A k \in 1 .. Len(points) : points[k].label \in {-Unit, Unit}

\* C7 witness: classifyXORData has labelled a point whose noisy coordinates
\* have product exactly 0
C7_Witness ==
  /\ gen = "xor" /\ Len(points) > 0
  /\ arg[1] * arg[2] = 0
  /\ points[Len(points)].label = Unit

\* the signed bump value of centre c for the point (px, py), domain [0, w]
BumpValue(c, w, px, py) ==
  c[3] * LinearScale(0, w, Unit, 0, TRUE, dist(px, py, c[1], c[2]))

\* the value of the first centre among those of maximum absolute value
StrongestBump(cs, w, px, py) ==
  LET val == [k \in 1 .. Len(cs) |-> BumpValue(cs[k], w, px, py)]
      top == CHOOSE k \in 1 .. Len(cs) :
               /\ \A j \in 1 .. Len(cs) : Abs(val[j]) <= Abs(val[k])
               /\ \A j \in 1 .. (k - 1) : Abs(val[j]) < Abs(val[k])
  IN  val[top]

\* C10: in regressGaussian and regressCsvDummy2 the label of a point is the
\* signed bump value of maximum absolute value among all centres, the
\* earlier centre's value on a tie, and 0 when every bump value is 0.
C10_LabelIsStrongestBump ==
  (gen \in {"gaussian", "rDummy2"} /\ Len(points) > 0) =>
    LET l  == points[Len(points)].label
        cs == IF gen = "gaussian" THEN gaussians ELSE centers
        w  == IF gen = "gaussian" THEN 2 * Unit ELSE 4 * Unit
        v  == [k \in 1 .. Len(cs) |-> BumpValue(cs[k], w, arg[1], arg[2])]
    IN  /\ l = StrongestBump(cs, w, arg[1], arg[2])
        /\ (\A k \in 1 .. Len(cs) : v[k] = 0) => l = 0

\* C10 witness: regressCsvDummy2 has labelled a point at which its two
\* centres have bump values of equal absolute value and opposite sign, not 0
C10_Witness ==
  /\ gen = "rDummy2" /\ Len(points) > 0
  /\ LET a == BumpValue(centers[1], 4 * Unit, arg[1], arg[2])
         b == BumpValue(centers[2], 4 * Unit, arg[1], arg[2])
     IN  a > 0 /\ b = -a /\ points[Len(points)].label = a

---------------------------------------------------------------------------
(* normalRandom, step by step *)

\* the arguments normalRandom is called with: the centres of the clusters
\* and the variances of classifyTwoGaussData and classifyCsvDummy1
MeanSamples == {2000, -2000, 2500, -2500}

VarianceSamples == {400, 500, 900, 4000}

\* one round of the do-while loop: the two draws, s, and the test s > 1
NormalDraw ==
  /\ npc = "draw"
  /\ \E ra, rb \in RandomSamples :
       /\ v1' = Candidate(ra)
       /\ v2' = Candidate(rb)
       /\ s' = SquaredSum(Candidate(ra), Candidate(rb))
  /\ npc' = IF Redraw(s') THEN "draw" ELSE "accepted"
  /\ UNCHANGED <<mean, variance, result>>
  /\ UNCHANGED <<genVars, csvVars, shufVars, adVars>>

\* the transform of the accepted pair, and the return
NormalReturn ==
  /\ npc = "accepted"
  /\ result' = Transform(mean, variance, v1, s)
  /\ npc' = "done"
  /\ UNCHANGED <<mean, variance, v1, v2, s>>
  /\ UNCHANGED <<genVars, csvVars, shufVars, adVars>>

NormalInit ==
  /\ mean \in MeanSamples /\ variance \in VarianceSamples
  /\ v1 = 0 /\ v2 = 0 /\ s = 0 /\ result = 0 /\ npc = "draw"

NormalNext == NormalDraw \/ NormalReturn

\* one call of normalRandom
InitNormal ==
  NormalInit /\ GenIdle /\ CsvIdle /\ ShufIdle /\ AdIdle

SpecNormal ==
  /\ InitNormal
  /\ [][NormalNext]_vars

\* C9: normalRandom redraws every pair whose squared sum s is outside
\* 0 < s <= 1, so s = 0 is never accepted, the logarithm and the division
\* see s > 0 only, and the value returned is a finite number.
C9_ZeroSumRejected ==
  /\ npc \in {"accepted", "done"} => (0 < s /\ s <= Unit)
  /\ npc = "done" => ~isNaN(result)

---------------------------------------------------------------------------
(* shuffle *)

\* largest array shuffle is called on
MaxLen == 3

Elements == {"a", "b", "c"}

\* values Math.random() returns to shuffle
IndexSamples == {0, 250, 500, 750, 999}

\* Swap with a fault: the element at index is not written back
SwapLosing(a, c, k) == [a EXCEPT ![c + 1] = a[k + 1]]

\* temp = array[counter]; array[counter] = array[index]; array[index] = temp
\* (positions count from 0 in the code, from 1 here)
Swap(a, c, k) == [a EXCEPT ![c + 1] = a[k + 1], ![k + 1] = a[c + 1]]

\* one iteration of the while loop
ShuffleStep ==
  /\ spc = "loop" /\ counter > 0
  /\ \E r \in IndexSamples :
       /\ index' = (r * counter) \div Unit
       /\ counter' = counter - 1
       /\ array' = Swap(array, counter', index')
  /\ UNCHANGED <<before, spc>>
  /\ UNCHANGED <<genVars, csvVars, adVars, nrVars>>

\* the loop ends
ShuffleReturn ==
  /\ spc = "loop" /\ ~(counter > 0)
  /\ spc' = "done"
  /\ UNCHANGED <<array, counter, index, before>>
  /\ UNCHANGED <<genVars, csvVars, adVars, nrVars>>

\* shuffle is called again, on the array as it is
ShuffleCall ==
  /\ spc = "done"
  /\ before' = array
  /\ counter' = Len(array) /\ index' = 0
  /\ spc' = "loop"
  /\ UNCHANGED array
  /\ UNCHANGED <<genVars, csvVars, adVars, nrVars>>

RECURSIVE SeqsUpTo(_, _)
\* the sequences over S of length at most n
SeqsUpTo(S, n) ==
  IF n = 0 THEN {<<>>}
  ELSE LET shorter == SeqsUpTo(S, n - 1)
       IN  shorter \cup { Append(q, e) : q \in shorter, e \in S }

ShuffleInit ==
  /\ array \in SeqsUpTo(Elements, MaxLen)
  /\ before = array
  /\ counter = Len(array) /\ index = 0 /\ spc = "loop"

ShuffleNext == ShuffleStep \/ ShuffleReturn \/ ShuffleCall

\* the loop of shuffle runs on once entered: the code is sequential
InitShuffle ==
  ShuffleInit /\ GenIdle /\ CsvIdle /\ AdIdle /\ NrIdle

SpecShuffle ==
  /\ InitShuffle
  /\ [][ShuffleNext]_vars
  /\ WF_vars(ShuffleStep) /\ WF_vars(ShuffleReturn)

\* how often e occurs in the sequence q
Count(q, e) == Cardinality({k \in 1 .. Len(q) : q[k] = e})

\* C6: shuffle ends, having gone through every position, and leaves the
\* array with the length and the multiset of elements it had before the
\* call; every index it picks is at or before the position being filled.
C6_ShufflePermutes ==
  /\ [](/\ Len(array) = Len(before)
        /\ \A e \in Elements : Count(array, e) = Count(before, e)
        /\ 0 <= index /\ index <= counter
        /\ spc = "done" => counter = 0)
  /\ (spc = "loop") ~> (spc = "done")

\* C6 witness: shuffle has ended on an array of three elements, two of them
\* distinct, and has changed their order
C6_Witness ==
  /\ spc = "done" /\ Len(array) >= 3 /\ array # before
  /\ counter = 0

---------------------------------------------------------------------------
(* generatorFromExamples.  Arrays and points are objects: arrays[a] is the  *)
(* sequence of the points array a holds, each named by its place in objs.  *)
(* Array 1 is examples; handles are the arrays the calls have returned.    *)

\* calls of the generator g
MaxCalls == 2

\* the examples the generator was made from
Examples == << Point(1000, 2000, Unit), Point(-300, 0, -Unit) >>

\* the point a caller adds, and the value it writes to a field
AddedPoint == Point(0, 0, Unit)

Written == 7 * Unit

Fields == {"x", "y", "label"}

\* slice with a fault: the array itself is returned, no copy is made
sliceSame(a) == [heap |-> arrays, id |-> a]

\* examples.slice(): a new array holding the same points in the same order
slice(a) == [heap |-> Append(arrays, arrays[a]), id |-> Len(arrays) + 1]

\* the (x, y, label) values array a holds
Values(a) == [k \in 1 .. Len(arrays[a]) |-> objs[arrays[a][k]]]

\* g(numSamples, noise) for g = generatorFromExamples(examples)
CallGenerator ==
  /\ Len(handles) < MaxCalls
  /\ \E n \in 0 .. MaxSamples, z \in NoiseSamples :
       /\ arrays' = slice(1).heap
       /\ handles' = Append(handles, slice(1).id)
       /\ op' = [kind |-> "call", target |-> slice(1).id, n |-> n, z |-> z]
  /\ UNCHANGED objs
  /\ UNCHANGED <<genVars, csvVars, shufVars, nrVars>>

\* the caller adds a point to a collection it was given (the model follows
\* one added point)
CallerPush ==
  /\ Len(objs) = Len(Examples)
  /\ \E h \in 1 .. Len(handles) :
       /\ objs' = Append(objs, AddedPoint)
       /\ arrays' = [arrays EXCEPT ![handles[h]] = Append(@, Len(objs) + 1)]
       /\ op' = [kind |-> "push", target |-> handles[h], n |-> 0, z |-> 0]
  /\ UNCHANGED handles
  /\ UNCHANGED <<genVars, csvVars, shufVars, nrVars>>

\* the caller removes the element at position k of a collection it was given
CallerRemove ==
  /\ \E h \in 1 .. Len(handles) :
       \E k \in 1 .. Len(arrays[handles[h]]) :
         /\ arrays' = [arrays EXCEPT ![handles[h]] =
                         SubSeq(@, 1, k - 1) \o SubSeq(@, k + 1, Len(@))]
         /\ op' = [kind |-> "remove", target |-> handles[h], n |-> 0, z |-> 0]
  /\ UNCHANGED <<objs, handles>>
  /\ UNCHANGED <<genVars, csvVars, shufVars, nrVars>>

\* the caller reverses a collection it was given
CallerReverse ==
  /\ \E h \in 1 .. Len(handles) :
       /\ Len(arrays[handles[h]]) > 1
       /\ arrays' = [arrays EXCEPT ![handles[h]] =
                       [k \in 1 .. Len(@) |-> @[Len(@) + 1 - k]]]
       /\ op' = [kind |-> "reverse", target |-> handles[h], n |-> 0, z |-> 0]
  /\ UNCHANGED <<objs, handles>>
  /\ UNCHANGED <<genVars, csvVars, shufVars, nrVars>>

\* the caller writes a field of a point of a collection it was given (the
\* model follows one such write)
CallerSetField ==
  /\ \A o \in 1 .. Len(objs) : \A f \in Fields : objs[o][f] # Written
  /\ \E h \in 1 .. Len(handles) :
       \E k \in 1 .. Len(arrays[handles[h]]), f \in Fields :
         /\ objs' = [objs EXCEPT ![arrays[handles[h]][k]][f] = Written]
         /\ op' = [kind |-> "set", target |-> handles[h], n |-> 0, z |-> 0]
  /\ UNCHANGED <<arrays, handles>>
  /\ UNCHANGED <<genVars, csvVars, shufVars, nrVars>>

\* generatorFromExamples(examples) has returned g
AdapterInit ==
  /\ objs = Examples
  /\ arrays = << [k \in 1 .. Len(Examples) |-> k] >>
  /\ handles = <<>>
  /\ op = [kind |-> "init", target |-> 0, n |-> 0, z |-> 0]

AdapterNext ==
  \/ CallGenerator \/ CallerPush \/ CallerRemove \/ CallerReverse
  \/ CallerSetField

InitAdapter ==
  AdapterInit /\ GenIdle /\ CsvIdle /\ ShufIdle /\ NrIdle

SpecAdapter ==
  /\ InitAdapter
  /\ [][AdapterNext]_vars

\* the values array a holds after the step
ValuesAfter(a) == [k \in 1 .. Len(arrays'[a]) |-> objs'[arrays'[a][k]]]

\* what a step leaves alone: the values of examples and of every collection
\* but the one the caller changes, a collection just returned having the
\* values of examples
OthersKeepValues ==
  /\ ValuesAfter(1) = Values(1)
  /\ \A a \in 2 .. Len(arrays) :
       a # op'.target => ValuesAfter(a) = Values(a)
  /\ op'.kind = "call" => ValuesAfter(op'.target) = Values(1)

\* C3: whatever the caller does to a collection g returned (adding, removing
\* or reordering elements, or writing a field of one of its points), every
\* other collection g returned and examples keep the values of the original
\* examples; numSamples and noise have no effect.
C3_CopiesIndependent == [][OthersKeepValues]_vars

\* C3 as amended: adding, removing or reordering the elements of a returned
\* collection changes no other collection and not examples, and each call
\* returns a new array with the values of examples whatever its arguments;
\* writing a field of a point changes that point in every array holding it.
C3_ArraysIndependent ==
  [][/\ op'.kind \in {"call", "push", "remove", "reverse"} => OthersKeepValues
     /\ op'.kind = "call" => op'.target \notin {1} \cup {handles[h] : h \in 1 .. Len(handles)}
     /\ op'.kind = "set" =>
          \A a \in 1 .. Len(arrays) : \A k \in 1 .. Len(arrays[a]) :
            \A b \in 1 .. Len(arrays) : \A j \in 1 .. Len(arrays[b]) :
              arrays[a][k] = arrays[b][j] => ValuesAfter(a)[k] = ValuesAfter(b)[j]]_vars

\* C3 witness: two collections were returned, the caller has added a point
\* to one and removed one from the other, and examples has its two points
C3_Witness ==
  /\ Len(handles) = 2
  /\ Len(arrays[handles[1]]) = 3 /\ Len(arrays[handles[2]]) = 1
  /\ Len(arrays[1]) = 2 /\ handles[1] # handles[2] /\ handles[1] # 1

---------------------------------------------------------------------------
(* parseCsvTextToExamples.  A string is the sequence of its characters.    *)

\* data rows of a text the importer is given
MaxRows == 2

Digit == {"0", "1", "2", "3", "4", "5", "6", "7", "8", "9"}

DigitValue(c) ==
  CASE c = "0" -> 0 [] c = "1" -> 1 [] c = "2" -> 2 [] c = "3" -> 3
    [] c = "4" -> 4 [] c = "5" -> 5 [] c = "6" -> 6 [] c = "7" -> 7
    [] c = "8" -> 8 [] c = "9" -> 9

DigitChar(d) ==
  CASE d = 0 -> "0" [] d = 1 -> "1" [] d = 2 -> "2" [] d = 3 -> "3"
    [] d = 4 -> "4" [] d = 5 -> "5" [] d = 6 -> "6" [] d = 7 -> "7"
    [] d = 8 -> "8" [] d = 9 -> "9"

\* the value of a property an object does not have
Undefined == <<"undefined">>

RECURSIVE TrimLeft(_)
\* the string without its leading white space
TrimLeft(str) ==
  IF Len(str) > 0 /\ Head(str) = " " THEN TrimLeft(Tail(str)) ELSE str

RECURSIVE LeadingDigits(_)
\* the longest prefix of the string made of digits
LeadingDigits(str) ==
  IF Len(str) > 0 /\ Head(str) \in Digit
  THEN <<Head(str)>> \o LeadingDigits(Tail(str))
  ELSE <<>>

RECURSIVE IntegerValue(_)
\* the number a string of digits denotes
IntegerValue(ds) ==
  IF Len(ds) = 0 THEN 0
  ELSE 10 * IntegerValue(SubSeq(ds, 1, Len(ds) - 1)) + DigitValue(ds[Len(ds)])

\* the fraction a string of digits denotes after the point, in 1 / Unit
FractionValue(ds) ==
  LET digit(k) == IF k <= Len(ds) THEN DigitValue(ds[k]) ELSE 0
  IN  100 * digit(1) + 10 * digit(2) + digit(3)

\* parseFloat(string): the number denoted by the longest prefix of the
\* trimmed string that is a decimal literal (sign, digits, point, digits),
\* NaN when there is none.  The strings of the model hold no exponent.
parseFloat(str) ==
  LET t0       == TrimLeft(str)
      signed   == Len(t0) > 0 /\ Head(t0) \in {"-", "+"}
      negative == Len(t0) > 0 /\ Head(t0) = "-"
      body     == IF signed THEN Tail(t0) ELSE t0
      whole    == LeadingDigits(body)
      rest     == SubSeq(body, Len(whole) + 1, Len(body))
      fraction == IF Len(rest) > 0 /\ Head(rest) = "."
                  THEN LeadingDigits(Tail(rest)) ELSE <<>>
      value    == IntegerValue(whole) * Unit + FractionValue(fraction)
  IN  IF Len(whole) = 0 /\ Len(fraction) = 0 THEN NaN
      ELSE IF negative THEN -value ELSE value

RECURSIVE Split(_, _)
\* the pieces of the string between the occurrences of the separator
Split(str, sep) ==
  IF \A k \in 1 .. Len(str) : str[k] # sep THEN <<str>>
  ELSE LET k == CHOOSE j \in 1 .. Len(str) :
                  str[j] = sep /\ \A m \in 1 .. (j - 1) : str[m] # sep
       IN  <<SubSeq(str, 1, k - 1)>> \o Split(SubSeq(str, k + 1, Len(str)), sep)

\* d3.csv.parseRows(text): the rows of the text, each the sequence of its
\* fields; a line break at the end of the text starts no row.  The strings
\* of the model hold no quote.
parseRows(text) ==
  LET lines == Split(text, "\n")
      kept  == IF lines[Len(lines)] = <<>>
               THEN SubSeq(lines, 1, Len(lines) - 1) ELSE lines
  IN  [k \in 1 .. Len(kept) |-> Split(kept[k], ",")]

\* d3.csv.parse(text): one object per row after the first, which names the
\* columns
d3csvparse(text) ==
  LET all == parseRows(text)
  IN  [k \in 1 .. (Len(all) - 1) |-> [names |-> all[1], d |-> all[k + 1]]]

\* row[name]: the field of the last column of that name, undefined when
\* there is no such column or the row is too short
Get(row, name) ==
  LET cols == {k \in 1 .. Len(row.names) : row.names[k] = name}
      col  == CHOOSE k \in cols : \A j \in cols : j <= k
  IN  IF cols = {} THEN Undefined
      ELSE IF col > Len(row.d) THEN Undefined
      ELSE row.d[col]

\* v != null ? parseFloat(String(v)) : NaN
Coerce(v) == IF v # Undefined THEN parseFloat(v) ELSE NaN

\* row.values != null ? row.values : row.value
vraw(row) ==
  IF Get(row, <<"v", "a", "l", "u", "e", "s">>) # Undefined
  THEN Get(row, <<"v", "a", "l", "u", "e", "s">>)
  ELSE Get(row, <<"v", "a", "l", "u", "e">>)

\* Invalid with a fault: the value field is not looked at
InvalidCoordinates(vx, vy, vv) == isNaN(vx) \/ isNaN(vy)

\* isNaN(vx) || isNaN(vy) || isNaN(vv)
Invalid(vx, vy, vv) == isNaN(vx) \/ isNaN(vy) \/ isNaN(vv)

\* Label with a fault: a value of 0 is labelled +1
LabelStrict(regression, vv) ==
  IF regression THEN vv ELSE IF vv < 0 THEN -Unit ELSE Unit

\* isRegression ? vv : (vv <= 0 ? -1 : 1)
Label(regression, vv) ==
  IF regression THEN vv ELSE IF vv <= 0 THEN -Unit ELSE Unit

\* let rows = d3.csv.parse(csvText); let out = [].  d3.csv.parse throws on
\* no string, so the catch branch is never entered.
CsvParse ==
  /\ cpc = "parse"
  /\ rows' = d3csvparse(csvText)
  /\ out' = <<>> /\ rowIdx' = 0
  /\ cpc' = "rows"
  /\ UNCHANGED <<csvText, isRegression>>
  /\ UNCHANGED <<genVars, shufVars, adVars, nrVars>>

\* rows.forEach: the callback on the next row
CsvRow ==
  /\ cpc = "rows" /\ rowIdx < Len(rows)
  /\ LET row == rows[rowIdx + 1]
         vx  == Coerce(Get(row, <<"x">>))
         vy  == Coerce(Get(row, <<"y">>))
         vv  == Coerce(vraw(row))
     IN  out' = IF Invalid(vx, vy, vv) THEN out
                ELSE Append(out, Point(vx, vy, Label(isRegression, vv)))
  /\ rowIdx' = rowIdx + 1
  /\ UNCHANGED <<csvText, isRegression, rows, cpc>>
  /\ UNCHANGED <<genVars, shufVars, adVars, nrVars>>

\* return out
CsvReturn ==
  /\ cpc = "rows" /\ ~(rowIdx < Len(rows))
  /\ cpc' = "done"
  /\ UNCHANGED <<csvText, isRegression, rows, rowIdx, out>>
  /\ UNCHANGED <<genVars, shufVars, adVars, nrVars>>

\* the header rows and the data rows the texts of the model are made of
HeaderSamples ==
  { <<"x", ",", "y", ",", "v", "a", "l", "u", "e", "s">>,
    <<"x", ",", "y", ",", "v", "a", "l", "u", "e">>,
    <<"x", ",", "y", ",", "v", "a", "l", "u", "e", "s", ",", "v", "a", "l", "u", "e">>,
    <<"y", ",", "x">> }

RowSamples ==
  { <<"1", ",", "2", ",", "0", ".", "5">>,
    <<"3", ",", "4", ",", "-", "0", ".", "2">>,
    <<"b", "a", "d", ",", "4", ",", "1">>,
    <<"5", ",", "6", ",", "0">>,
    <<"7", ",", "8">>,
    <<"1", ",", "2", ",", ",", "-", "3">>,
    <<"-", "1", ".", "5", ",", ",", "2">>,
    <<" ", ".", "5", ",", "2", "x", ",", "x", "1">>,
    <<>> }

RECURSIVE Lines(_)
\* the rows, each ended by a line break
Lines(rs) ==
  IF Len(rs) = 0 THEN <<>> ELSE Head(rs) \o <<"\n">> \o Lines(Tail(rs))

\* the text of the README's example
ExampleText ==
  <<"x", ",", "y", ",", "v", "a", "l", "u", "e", "s", "\n", "1", ",", "2", ",", "0", ".", "5", "\n">>
    \o <<"3", ",", "4", ",", "-", "0", ".", "2", "\n", "b", "a", "d", ",", "4", ",", "1", "\n">>

CsvTexts ==
  {ExampleText} \cup
  { Lines(<<h>> \o rs) : h \in HeaderSamples, rs \in SeqsUpTo(RowSamples, MaxRows) }

CsvInit ==
  /\ csvText \in CsvTexts
  /\ isRegression \in BOOLEAN
  /\ rows = <<>> /\ rowIdx = 0 /\ out = <<>> /\ cpc = "parse"

CsvNext == CsvParse \/ CsvRow \/ CsvReturn

\* one call of parseCsvTextToExamples
InitCsv ==
  CsvInit /\ GenIdle /\ ShufIdle /\ AdIdle /\ NrIdle

SpecCsv ==
  /\ InitCsv
  /\ [][CsvNext]_vars

\* the field is present and coerces to a number
Numeric(v) == v # Undefined /\ ~isNaN(parseFloat(v))

\* the value field of a row: values, else value when values is absent
ValueField(row) ==
  LET a == Get(row, <<"v", "a", "l", "u", "e", "s">>)
  IN  IF a # Undefined THEN a ELSE Get(row, <<"v", "a", "l", "u", "e">>)

\* the row is one the importer is to accept
Acceptable(row) ==
  Numeric(Get(row, <<"x">>)) /\ Numeric(Get(row, <<"y">>)) /\ Numeric(ValueField(row))

RECURSIVE Coordinates(_)
\* the (x, y) of the acceptable rows, in the order of the rows
Coordinates(rs) ==
  IF Len(rs) = 0 THEN <<>>
  ELSE (IF Acceptable(Head(rs))
        THEN << <<parseFloat(Get(Head(rs), <<"x">>)), parseFloat(Get(Head(rs), <<"y">>))>> >>
        ELSE <<>>) \o Coordinates(Tail(rs))

\* C4: the importer returns one point per data row whose x, y and value
\* field are present and numeric, in the order of the rows, and none for
\* any other row, going on after a row it skips; the README's example gives
\* exactly {x:1,y:2,label:1}, {x:3,y:4,label:-1}.
C4_OnePointPerValidRow ==
  cpc = "done" =>
    /\ [k \in 1 .. Len(out) |-> <<out[k].x, out[k].y>>] = Coordinates(d3csvparse(csvText))
    /\ (csvText = ExampleText /\ ~isRegression) =>
         out = << Point(1000, 2000, Unit), Point(3000, 4000, -Unit) >>

\* C4 witness: the importer has returned from a text whose first data row
\* it skipped and whose second it accepted
C4_Witness ==
  /\ cpc = "done" /\ Len(rows) = 2 /\ Len(out) = 1
  /\ ~Acceptable(rows[1]) /\ Acceptable(rows[2])

\* C5: an accepted row with value v gets the label v under isRegression,
\* and else -1 when v <= 0 (v = 0 too) and +1 when v > 0.
C5_LabelRule ==
  [][(cpc = "rows" /\ Len(out') > Len(out)) =>
       LET v == parseFloat(ValueField(rows[rowIdx + 1]))
           l == out'[Len(out')].label
       IN  /\ isRegression => l = v
           /\ ~isRegression => /\ l \in {-Unit, Unit}
                               /\ (l = -Unit) = (v <= 0)]_vars

\* C5 witness: in classification mode a row with value 0 was accepted and
\* labelled -1
C5_Witness ==
  /\ ~isRegression /\ cpc = "rows" /\ rowIdx > 0 /\ Len(out) > 0
  /\ Acceptable(rows[rowIdx])
  /\ parseFloat(ValueField(rows[rowIdx])) = 0
  /\ out[Len(out)].label = -Unit

---------------------------------------------------------------------------
(* A generated classification collection written as CSV and imported *)

RECURSIVE NaturalString(_)
\* the decimal digits of a natural number
NaturalString(n) ==
  IF n < 10 THEN <<DigitChar(n)>>
  ELSE NaturalString(n \div 10) \o <<DigitChar(n % 10)>>

RECURSIVE DropZeros(_)
\* the string without its trailing zeros
DropZeros(ds) ==
  IF Len(ds) > 0 /\ ds[Len(ds)] = "0" THEN DropZeros(SubSeq(ds, 1, Len(ds) - 1))
  ELSE ds

\* String(v): the decimal notation of a number
NumberString(v) ==
  IF isNaN(v) THEN <<"N", "a", "N">>
  ELSE LET a        == Abs(v)
           fraction == DropZeros(<<DigitChar((a % Unit) \div 100),
                                   DigitChar((a % 100) \div 10),
                                   DigitChar(a % 10)>>)
       IN  (IF v < 0 THEN <<"-">> ELSE <<>>)
             \o NaturalString(a \div Unit)
             \o (IF Len(fraction) > 0 THEN <<".">> \o fraction ELSE <<>>)

RECURSIVE PointLines(_)
\* one row x,y,label per point
PointLines(ps) ==
  IF Len(ps) = 0 THEN <<>>
  ELSE NumberString(Head(ps).x) \o <<",">> \o NumberString(Head(ps).y) \o <<",">>
         \o NumberString(Head(ps).label) \o <<"\n">> \o PointLines(Tail(ps))

\* the collection as CSV text under the header x,y,values
WriteCsv(ps) == <<"x", ",", "y", ",", "v", "a", "l", "u", "e", "s", "\n">> \o PointLines(ps)

\* the collection a generator returned is written and handed to the importer
Export ==
  /\ pc = "done" /\ cpc = "idle"
  /\ csvText' = WriteCsv(points)
  /\ isRegression' = FALSE
  /\ cpc' = "parse"
  /\ UNCHANGED <<rows, rowIdx, out>>
  /\ UNCHANGED <<genVars, shufVars, adVars, nrVars>>

RoundTripNext ==
  \/ classifyTwoGaussData \/ classifySpiralData \/ classifyCircleData
  \/ classifyXORData \/ classifyCsvDummy1 \/ classifyCsvDummy2
  \/ SecondLoop \/ Return
  \/ Export \/ CsvParse \/ CsvRow \/ CsvReturn

InitRoundTrip ==
  GenInit(ClassifyGens) /\ CsvIdle /\ ShufIdle /\ AdIdle /\ NrIdle

SpecRoundTrip ==
  /\ InitRoundTrip
  /\ [][RoundTripNext]_vars

\* the round trip of the collections that hold numbers only
RoundTripOfNumbers ==
  (/\ pc = "done" /\ cpc = "done"
   /\ \A k \in 1 .. Len(points) : ~isNaN(points[k].x) /\ ~isNaN(points[k].y))
    => out = points

\* C8: a collection with labels -1 and +1, written as rows x,y,values and
\* imported with isRegression = false, comes back as the same sequence of
\* (x, y, label).
C8_RoundTrip ==
  (pc = "done" /\ cpc = "done") => out = points

==========================================================================
